---- MODULE Spec2Model ----
(***************************************************************************)
(* A model of the utility scripts of uhigh.net:                            *)
(*   src/main.py                 the Tree Line Counter                     *)
(*   src/scripts/duperemover.py  the Pattern-Extracting Deduplicator       *)
(*                                                                         *)
(* Three specifications share the variables below:                        *)
(*   Spec       count_lines_in_cs_files walking a directory tree           *)
(*   SpecRead   lines 22-25 of main.py reading one file                    *)
(*   SpecDedup  duperemover.py run from its command line                   *)
(* A specification holds the other parts' variables at their idle values.  *)
(***************************************************************************)
EXTENDS Integers, Sequences, FiniteSets, TLC

VARIABLES
    \* ---- src/main.py: count_lines_in_cs_files
    pc,           \* "walk": the for statement asks os.walk for its next triple
                  \* "files": inside the "for file in files" loop
                  \* "done": both summary lines printed; "crashed": unhandled exception
    stack,        \* directories os.walk has still to scan, next one first
    root,         \* os.walk's current root (a path: a sequence of names)
    files,        \* the file names of root not yet handled by the inner loop
    total_lines,
    total_files,
    total_dirs,
    out,          \* stdout: the lines printed so far
    visited,      \* history: every triple os.walk yielded, [root, dirs, files] as listed
    opened,       \* history: every open() attempted: its path, whether it was read
                  \* to its end (ok) and, if not, whether lines were read before (partial)
    skipped,      \* history: the directories whose listing failed
    entriesLeft,  \* directory entries the file system may still reveal
    \* ---- main.py:22-25 on one file (SpecRead)
    rpc,          \* "open", "count" (inside the generator of line 24), "printed"
    content,      \* the file's bytes, as characters
    unread,       \* the decoded text the file object has not yet returned
    line_count,
    printed,      \* the counts printed by line 25
    \* ---- src/scripts/duperemover.py
    dpc, argv, inFile, lines, types, counts, unique_types, seen, idx,
    outFile, outFile0, inputOpened, stdout

walkVars  == <<pc, stack, root, files, total_lines, total_files, total_dirs, out,
               visited, opened, skipped, entriesLeft>>
readVars  == <<rpc, content, unread, line_count, printed>>
dedupVars == <<dpc, argv, inFile, lines, types, counts, unique_types, seen, idx,
               outFile, outFile0, inputOpened, stdout>>
vars      == <<walkVars, readVars, dedupVars>>

----------------------------------------------------------------------------
(* Bounds of the model.                                                    *)

\* directory entries (subdirectories and files, over the whole tree) the file
\* system reveals to the walk
MaxEntries == 3
\* characters in a .cs file's content
MaxContentLen == 4
\* units (see Units) in the deduplicator's input file
MaxUnits == 8
\* command-line arguments after the script's name
MaxArgs == 3

----------------------------------------------------------------------------
(* Sequences.                                                              *)

SeqsUpTo(S, n) == UNION {[1..k -> S] : k \in 0..n}

RECURSIVE SumSeq(_)
SumSeq(s) == IF s = <<>> THEN 0 ELSE Head(s) + SumSeq(Tail(s))

RECURSIVE Flatten(_)
Flatten(ss) == IF ss = <<>> THEN <<>> ELSE Head(ss) \o Flatten(Tail(ss))

----------------------------------------------------------------------------
(* Text files: open(path, 'r') and iteration over the file object.         *)

NL == "\n"
CR == "\r"

\* Text mode with newline=None (the default of open): on input "\r\n" and a
\* lone "\r" are translated to "\n".
RECURSIVE Translate(_)
Translate(s) ==
    IF s = <<>> THEN <<>>
    ELSE IF Head(s) = CR
         THEN IF Len(s) >= 2 /\ s[2] = NL
              THEN <<NL>> \o Translate(SubSeq(s, 3, Len(s)))
              ELSE <<NL>> \o Translate(Tail(s))
         ELSE <<Head(s)>> \o Translate(Tail(s))

\* readline(): the text up to and including the first "\n", or all of it.
FirstLineLen(s) ==
    IF \E i \in 1..Len(s) : s[i] = NL
    THEN CHOOSE i \in 1..Len(s) : s[i] = NL /\ \A j \in 1..(i - 1) : s[j] # NL
    ELSE Len(s)

\* "for line in f": readline() until it returns the empty string.
RECURSIVE IterLines(_)
IterLines(s) ==
    IF s = <<>> THEN <<>>
    ELSE <<SubSeq(s, 1, FirstLineLen(s))>>
         \o IterLines(SubSeq(s, FirstLineLen(s) + 1, Len(s)))

FileLines(raw) == IterLines(Translate(raw))

----------------------------------------------------------------------------
(* src/main.py: count_lines_in_cs_files.                                   *)

\* main.py:8
blacklist == {".git", "bin", "obj", "packages", "node_modules"}

\* The names a directory entry may bear in the model: one blacklisted name,
\* one ordinary name, and one that differs from a blacklisted name by case.
DirNames == {"bin", "src", "Bin"}

\* What os.walk finds behind a name that is_dir(): a directory it can list, a
\* symbolic link to a directory (listed in dirs, never entered: followlinks
\* is False), or a directory whose os.scandir() raises PermissionError.
Kinds == {"dir", "link", "noperm"}

DirEntries == [name : DirNames, kind : Kinds]

\* File names, as character sequences: a.cs, b.cs and cs.txt.
FileNames == { <<"a", ".", "c", "s">>, <<"b", ".", "c", "s">>,
               <<"c", "s", ".", "t", "x", "t">> }

Distinct(s) == \A i, j \in 1..Len(s) : i # j => s[i] # s[j]

\* The listings os.scandir() may return for one directory: entry names are
\* distinct within a directory, their order is the file system's.
DirListings(n) ==
    {s \in SeqsUpTo(DirEntries, n) : Distinct([i \in 1..Len(s) |-> s[i].name])}

FileListings(n) == {s \in SeqsUpTo(FileNames, n) : Distinct(s)}

\* The contents a .cs file may have.
Contents == SeqsUpTo({"x", NL, CR}, MaxContentLen)

\* str.endswith
EndsWith(s, suffix) ==
    /\ Len(s) >= Len(suffix)
    /\ SubSeq(s, Len(s) - Len(suffix) + 1, Len(s)) = suffix

DotCs == <<".", "c", "s">>

\* os.path.join(root, file)
Join(dir, file) == [dir |-> dir, file |-> file]

\* The lines of stdout.
ReportLine(path, n) == [kind |-> "report", path |-> path, n |-> n, m |-> 0, msg |-> ""]
ErrorLine(path, e)  == [kind |-> "error", path |-> path, n |-> 0, m |-> 0, msg |-> e]
BlankLine           == [kind |-> "blank", path |-> <<>>, n |-> 0, m |-> 0, msg |-> ""]
TotalLine(l, f)     == [kind |-> "total", path |-> <<>>, n |-> l, m |-> f, msg |-> ""]
DirsLine(d)         == [kind |-> "dirs", path |-> <<>>, n |-> d, m |-> 0, msg |-> ""]

\* Mutant of Prune: the blacklist is not applied.
PruneNothing(ds) == ds

\* main.py:13  dirs[:] = [d for d in dirs if d not in blacklist]
Prune(ds) == SelectSeq(ds, LAMBDA d : d.name \notin blacklist)

\* Mutant of DirsCounted: the directories are counted before they are pruned.
DirsCountedUnpruned(ds) == Len(ds)

\* Mutant of DirsCounted: every visited directory counts itself as well.
DirsCountedWithSelf(ds) == Len(Prune(ds)) + 1

\* main.py:15  total_dirs += len(dirs)
DirsCounted(ds) == Len(Prune(ds))

\* os.walk after the loop body returns: every name left in dirs that is not a
\* symbolic link is walked, in the order of dirs, before the directories
\* that were already waiting.
Children(top, dirs) ==
    LET real == SelectSeq(dirs, LAMBDA d : d.kind # "link")
    IN  [i \in 1..Len(real) |-> [path |-> Append(top, real[i].name),
                                   kind |-> real[i].kind]]

\* Mutant of OnScandirError: the listing error is raised to the caller.
OnScandirErrorRaise == "raise"

\* os.walk('.') is called without onerror: an OSError of os.scandir() is
\* ignored and the directory is left out of the walk.
OnScandirError == "ignore"

\* main.py:24  line_count = sum(1 for _ in f)
LineCount(raw) == Len(FileLines(raw))

\* The line counts line 24 can produce for a file of the model, and for each
\* the numbers of lines it may have consumed when decoding fails.
LineCounts == {LineCount(raw) : raw \in Contents}

\* main.py:26-27 after a file was read to its end
TotalsAfterRead(tl, tf, n) == <<tl + n, tf + 1>>

\* Mutant of TotalsAfterError: the lines are added to total_lines as they are
\* read, so a failing file leaves the ones read before the failure.
TotalsAfterErrorPartial(tl, tf, k) == <<tl + k, tf>>

\* Mutant of TotalsAfterError: total_files is incremented for every file
\* opened, read or not.
TotalsAfterErrorCounted(tl, tf, k) == <<tl, tf + 1>>

\* main.py:28-29: the exception leaves the with block before lines 26-27;
\* k lines had been consumed by the generator of line 24.
TotalsAfterError(tl, tf, k) == <<tl, tf>>

\* main.py:28  except Exception
OnReadError == "caught"

\* The inner loop ends when files is exhausted; control returns to os.walk.
AfterFile(rest) == IF rest = <<>> THEN "walk" ELSE "files"

WalkIdle ==
    /\ pc = "done" /\ stack = <<>> /\ root = <<>> /\ files = <<>>
    /\ total_lines = 0 /\ total_files = 0 /\ total_dirs = 0
    /\ out = <<>> /\ visited = <<>> /\ opened = <<>> /\ skipped = {}
    /\ entriesLeft = 0

\* main.py:5-11: the counters are zero and os.walk('.') is about to scan the
\* current directory, which the process may or may not be allowed to list.
WalkInit ==
    /\ pc = "walk"
    /\ \E k \in {"dir", "noperm"} : stack = <<[path |-> <<".">>, kind |-> k]>>
    /\ root = <<>> /\ files = <<>>
    /\ total_lines = 0 /\ total_files = 0 /\ total_dirs = 0
    /\ out = <<>> /\ visited = <<>> /\ opened = <<>> /\ skipped = {}
    /\ entriesLeft = MaxEntries

\* main.py:11-15: os.walk scans the next directory and yields its triple;
\* the loop body prunes dirs and adds what is left to total_dirs.
VisitDir ==
    /\ pc = "walk" /\ stack # <<>> /\ Head(stack).kind # "noperm"
    /\ \E ds \in DirListings(entriesLeft) :
       \E fs \in FileListings(entriesLeft - Len(ds)) :
         LET top == Head(stack).path
         IN  /\ root' = top
             /\ files' = fs
             /\ total_dirs' = total_dirs + DirsCounted(ds)
             /\ stack' = Children(top, Prune(ds)) \o Tail(stack)
             /\ visited' = Append(visited, [root |-> top, dirs |-> ds, files |-> fs])
             /\ entriesLeft' = entriesLeft - Len(ds) - Len(fs)
             /\ pc' = AfterFile(fs)
    /\ UNCHANGED <<total_lines, total_files, out, opened, skipped>>
    /\ UNCHANGED <<readVars, dedupVars>>

\* main.py:11: os.scandir() of the next directory raises.
SkipUnlistable ==
    /\ pc = "walk" /\ stack # <<>> /\ Head(stack).kind = "noperm"
    /\ skipped' = skipped \cup {Head(stack).path}
    /\ stack' = Tail(stack)
    /\ pc' = IF OnScandirError = "ignore" THEN "walk" ELSE "crashed"
    /\ UNCHANGED <<root, files, total_lines, total_files, total_dirs, out,
                   visited, opened, entriesLeft>>
    /\ UNCHANGED <<readVars, dedupVars>>

\* main.py:18-19: a file whose name does not end in ".cs".
SkipFile ==
    /\ pc = "files" /\ files # <<>>
    /\ ~EndsWith(Head(files), DotCs)
    /\ files' = Tail(files)
    /\ pc' = AfterFile(files')
    /\ UNCHANGED <<stack, root, total_lines, total_files, total_dirs, out,
                   visited, opened, skipped, entriesLeft>>
    /\ UNCHANGED <<readVars, dedupVars>>

\* main.py:19-27: a .cs file is opened and read to its end.
ReadFile ==
    /\ pc = "files" /\ files # <<>>
    /\ EndsWith(Head(files), DotCs)
    /\ \E n \in LineCounts :
         LET file_path == Join(root, Head(files))
             t == TotalsAfterRead(total_lines, total_files, n)
         IN  /\ out' = Append(out, ReportLine(file_path, n))
             /\ total_lines' = t[1]
             /\ total_files' = t[2]
             /\ opened' = Append(opened, [path |-> file_path, partial |-> FALSE, ok |-> TRUE])
    /\ files' = Tail(files)
    /\ pc' = AfterFile(files')
    /\ UNCHANGED <<stack, root, total_dirs, visited, skipped, entriesLeft>>
    /\ UNCHANGED <<readVars, dedupVars>>

\* main.py:19-29: open() raises (PermissionError), or decoding raises
\* (UnicodeDecodeError) after k lines of the file were already counted.
ReadFileError ==
    /\ pc = "files" /\ files # <<>>
    /\ EndsWith(Head(files), DotCs)
    /\ \E n \in LineCounts, e \in {"PermissionError", "UnicodeDecodeError"} :
       \E k \in 0..(IF e = "PermissionError" THEN 0 ELSE n) :
         LET file_path == Join(root, Head(files))
             t == TotalsAfterError(total_lines, total_files, k)
         IN  /\ out' = IF OnReadError = "caught"
                       THEN Append(out, ErrorLine(file_path, e)) ELSE out
             /\ total_lines' = t[1]
             /\ total_files' = t[2]
             /\ opened' = Append(opened, [path |-> file_path, partial |-> (k > 0), ok |-> FALSE])
    /\ files' = Tail(files)
    /\ pc' = IF OnReadError = "caught" THEN AfterFile(files') ELSE "crashed"
    /\ UNCHANGED <<stack, root, total_dirs, visited, skipped, entriesLeft>>
    /\ UNCHANGED <<readVars, dedupVars>>

\* main.py:31-32: os.walk is exhausted; the summary is printed.
PrintSummary ==
    /\ pc = "walk" /\ stack = <<>>
    /\ out' = out \o <<BlankLine, TotalLine(total_lines, total_files),
                       DirsLine(total_dirs)>>
    /\ pc' = "done"
    /\ UNCHANGED <<stack, root, files, total_lines, total_files, total_dirs,
                   visited, opened, skipped, entriesLeft>>
    /\ UNCHANGED <<readVars, dedupVars>>

----------------------------------------------------------------------------
(* main.py:22-25 on one file: open it, count its lines, print the count.   *)

\* Mutant of LineStep: only lines that end in a terminator are counted.
LineStepTerminated(n, line) == IF line[Len(line)] = NL THEN n + 1 ELSE n

\* main.py:24: the generator yields 1 for every line the file object returns.
LineStep(n, line) == n + 1

ReadIdle ==
    /\ rpc = "idle" /\ content = <<>> /\ unread = <<>> /\ line_count = 0
    /\ printed = <<>>

ReadInit ==
    /\ rpc = "open" /\ content \in Contents /\ unread = <<>> /\ line_count = 0
    /\ printed = <<>>

\* main.py:22
OpenFile ==
    /\ rpc = "open"
    /\ unread' = Translate(content)
    /\ rpc' = "count"
    /\ UNCHANGED <<content, line_count, printed, walkVars, dedupVars>>

\* main.py:24, one line
CountLine ==
    /\ rpc = "count" /\ unread # <<>>
    /\ line_count' = LineStep(line_count, SubSeq(unread, 1, FirstLineLen(unread)))
    /\ unread' = SubSeq(unread, FirstLineLen(unread) + 1, Len(unread))
    /\ UNCHANGED <<rpc, content, printed, walkVars, dedupVars>>

\* main.py:25
PrintCount ==
    /\ rpc = "count" /\ unread = <<>>
    /\ printed' = Append(printed, line_count)
    /\ rpc' = "printed"
    /\ UNCHANGED <<content, unread, line_count, walkVars, dedupVars>>

----------------------------------------------------------------------------
(* src/scripts/duperemover.py.                                             *)

\* The characters of the deduplicator's input: the 27 characters
\* "The type or namespace name " stand as one symbol (Text), since the pattern
\* matches them only as a whole and no proper suffix of them is a prefix of
\* them; to "[^']" Text is a run of characters that are not quotes.
Text == "The type or namespace name "
Quote == "'"

\* An input file is a concatenation of units: the phrase with its opening
\* quote, a lone quote, an identifier character, a line terminator.
Units == { <<Text, Quote>>, <<Quote>>, <<"A">>, <<NL>> }

Files == {Flatten(u) : u \in SeqsUpTo(Units, MaxUnits)}

\* What extract_type returns: a match's group(1), or None.
None == [some |-> FALSE, val |-> <<>>]
Some(v) == [some |-> TRUE, val |-> v]

\* Python's truth value of a str or None
Truthy(m) == m.some /\ m.val # <<>>

\* The pattern matched with its first character at position i: the phrase,
\* the quote, then "[^']+" (greedy: up to the next quote, at least one
\* character), then that quote.
MatchAt(line, i) ==
    /\ i + 3 <= Len(line)
    /\ line[i] = Text /\ line[i + 1] = Quote
    /\ line[i + 2] # Quote
    /\ \E j \in (i + 3)..Len(line) : line[j] = Quote

\* Mutant of extract_type: the pattern's closing quote is optional, so a quote
\* that is never closed yields the rest of the line.
extract_type_unclosed(line) ==
    LET Opens(i) == /\ i + 2 <= Len(line)
                    /\ line[i] = Text /\ line[i + 1] = Quote
                    /\ line[i + 2] # Quote
    IN  IF \E i \in 1..Len(line) : Opens(i)
        THEN LET i == CHOOSE a \in 1..Len(line) :
                         Opens(a) /\ \A b \in 1..(a - 1) : ~Opens(b)
                 closing == {a \in (i + 3)..Len(line) : line[a] = Quote}
                 j == IF closing = {} THEN Len(line) + 1
                      ELSE CHOOSE a \in closing : \A b \in closing : a <= b
             IN  [some |-> TRUE, val |-> SubSeq(line, i + 2, j - 1)]
        ELSE [some |-> FALSE, val |-> <<>>]

\* duperemover.py:5-10: re.search returns the leftmost match.
extract_type(line) ==
    IF \E i \in 1..Len(line) : MatchAt(line, i)
    THEN LET i == CHOOSE a \in 1..Len(line) :
                     MatchAt(line, a) /\ \A b \in 1..(a - 1) : ~MatchAt(line, b)
             j == CHOOSE a \in (i + 3)..Len(line) :
                     line[a] = Quote /\ \A b \in (i + 3)..(a - 1) : line[b] # Quote
         IN  Some(SubSeq(line, i + 2, j - 1))
    ELSE None

\* str.rstrip('\n')
RECURSIVE RStripNL(_)
RStripNL(line) ==
    IF line # <<>> /\ line[Len(line)] = NL
    THEN RStripNL(SubSeq(line, 1, Len(line) - 1))
    ELSE line

\* duperemover.py:14
ReadLines(raw) == LET ls == FileLines(raw) IN [i \in 1..Len(ls) |-> RStripNL(ls[i])]

\* duperemover.py:17-18
ExtractAll(ls) ==
    LET ms == SelectSeq([i \in 1..Len(ls) |-> extract_type(ls[i])], Truthy)
    IN  [i \in 1..Len(ms) |-> ms[i].val]

\* collections.Counter(iterable): one more for each element, in order.
RECURSIVE Counter(_)
Counter(ts) ==
    IF ts = <<>> THEN <<>>
    ELSE LET c == Counter(SubSeq(ts, 1, Len(ts) - 1))
             t == ts[Len(ts)]
         IN  IF t \in DOMAIN c THEN [c EXCEPT ![t] = @ + 1] ELSE c @@ (t :> 1)

\* Mutant of IsNew: every occurrence is taken for the first.
IsNewAlways(t, s) == TRUE

\* duperemover.py:25  if t not in seen
IsNew(t, s) == t \notin s

Usage == "Usage: python duperemover.py <input_file> <output_file>"
Header == "TypeOrNamespace\tCount\n"

\* duperemover.py:32  f"{t}\t{count}\n"
Row(t, count) == [tok |-> t, sep |-> "\t", count |-> count, end |-> NL]

\* The output file: missing, or holding a header line and rows.
Absent == [exists |-> FALSE, header |-> "", rows |-> <<>>]
Stale  == [exists |-> TRUE, header |-> "an earlier run's output\n", rows |-> <<>>]

\* duperemover.py:29-32: mode 'w' creates or truncates the file.
Written(ut) ==
    [exists |-> TRUE, header |-> Header,
     rows |-> [i \in 1..Len(ut) |-> Row(ut[i][1], ut[i][2])]]

\* sys.argv for n command-line arguments
ArgV(n) == <<"duperemover.py">> \o [i \in 1..n |-> <<"arg", i>>]

\* Mutant of WrongArgCount: only too few arguments are refused.
WrongArgCountTooFew(a) == Len(a) < 3

\* duperemover.py:35
WrongArgCount(a) == Len(a) # 3

DedupIdle ==
    /\ dpc = "idle" /\ argv = <<>> /\ inFile = <<>> /\ lines = <<>> /\ types = <<>>
    /\ counts = <<>> /\ unique_types = <<>> /\ seen = {} /\ idx = 0
    /\ outFile = Absent /\ outFile0 = Absent /\ inputOpened = FALSE /\ stdout = <<>>

\* The script is started with 0..MaxArgs arguments; the output path names no
\* file yet, or a file an earlier run left.
DedupInit ==
    /\ dpc = "main"
    /\ \E n \in 0..MaxArgs : argv = ArgV(n)
    /\ inFile = <<>> /\ lines = <<>> /\ types = <<>>
    /\ counts = <<>> /\ unique_types = <<>> /\ seen = {} /\ idx = 0
    /\ outFile0 \in {Absent, Stale} /\ outFile = outFile0
    /\ inputOpened = FALSE /\ stdout = <<>>

\* duperemover.py:35-36
MainUsage ==
    /\ dpc = "main" /\ WrongArgCount(argv)
    /\ stdout' = Append(stdout, Usage)
    /\ dpc' = "done"
    /\ UNCHANGED <<argv, inFile, lines, types, counts, unique_types, seen, idx,
                   outFile, outFile0, inputOpened, walkVars, readVars>>

\* duperemover.py:37-38
MainCall ==
    /\ dpc = "main" /\ ~WrongArgCount(argv)
    /\ dpc' = "read"
    /\ UNCHANGED <<argv, inFile, lines, types, counts, unique_types, seen, idx,
                   outFile, outFile0, inputOpened, stdout, walkVars, readVars>>

\* duperemover.py:13-14: the input file is opened and read, whatever it holds.
ReadInput ==
    /\ dpc = "read"
    /\ \E f \in Files : inFile' = f /\ lines' = ReadLines(f)
    /\ inputOpened' = TRUE
    /\ dpc' = "extract"
    /\ UNCHANGED <<argv, types, counts, unique_types, seen, idx,
                   outFile, outFile0, stdout, walkVars, readVars>>

\* duperemover.py:17-22
ExtractTypes ==
    /\ dpc = "extract"
    /\ types' = ExtractAll(lines)
    /\ counts' = Counter(types')
    /\ unique_types' = <<>>
    /\ seen' = {}
    /\ idx' = 1
    /\ dpc' = "loop"
    /\ UNCHANGED <<argv, inFile, lines, outFile, outFile0, inputOpened, stdout,
                   walkVars, readVars>>

\* duperemover.py:24-27, one iteration
LoopStep ==
    /\ dpc = "loop" /\ idx <= Len(types)
    /\ LET t == types[idx]
       IN  IF IsNew(t, seen)
           THEN /\ unique_types' = Append(unique_types, <<t, counts[t]>>)
                /\ seen' = seen \cup {t}
           ELSE UNCHANGED <<unique_types, seen>>
    /\ idx' = idx + 1
    /\ UNCHANGED <<dpc, argv, inFile, lines, types, counts, outFile, outFile0,
                   inputOpened, stdout, walkVars, readVars>>

\* duperemover.py:29-32
WriteOutput ==
    /\ dpc = "loop" /\ idx > Len(types)
    /\ outFile' = Written(unique_types)
    /\ dpc' = "done"
    /\ UNCHANGED <<argv, inFile, lines, types, counts, unique_types, seen, idx,
                   outFile0, inputOpened, stdout, walkVars, readVars>>

----------------------------------------------------------------------------
(* The specifications.                                                     *)

Init == WalkInit /\ ReadIdle /\ DedupIdle

Next == VisitDir \/ SkipUnlistable \/ SkipFile \/ ReadFile \/ ReadFileError
        \/ PrintSummary

Spec == Init /\ [][Next]_vars

InitRead == WalkIdle /\ ReadInit /\ DedupIdle

NextRead == OpenFile \/ CountLine \/ PrintCount

SpecRead == InitRead /\ [][NextRead]_vars

InitDedup == WalkIdle /\ ReadIdle /\ DedupInit

NextDedup == MainUsage \/ MainCall \/ ReadInput \/ ExtractTypes \/ LoopStep
             \/ WriteOutput

SpecDedup == InitDedup /\ [][NextDedup]_vars

----------------------------------------------------------------------------
(* The claims about the Tree Line Counter, under Spec.                     *)

\* A path below the starting directory "." that passes through no
\* blacklisted name.
NoBlacklisted(path) == \A i \in 2..Len(path) : path[i] \notin blacklist

Reports == SelectSeq(out, LAMBDA l : l.kind = "report")

ReportCounts == [i \in 1..Len(Reports) |-> Reports[i].n]

\* The subdirectories of a listing whose names are not blacklisted.
Unpruned(ds) == {j \in 1..Len(ds) : ds[j].name \notin blacklist}

UnprunedPerVisit == [i \in 1..Len(visited) |-> Cardinality(Unpruned(visited[i].dirs))]

SummaryPrinted ==
    /\ Len(out) >= 3
    /\ SubSeq(out, Len(out) - 2, Len(out))
         = <<BlankLine, TotalLine(total_lines, total_files), DirsLine(total_dirs)>>

\* C1: a subdirectory named .git, bin, obj, packages or node_modules is never
\* entered: no directory os.walk yields or still has to scan, no file
\* opened and no report or error line lies beneath such a name, and the
\* three totals are made up only of what was found outside them.
C1_BlacklistedNeverEntered ==
    /\ \A i \in 1..Len(visited) : NoBlacklisted(visited[i].root)
    /\ \A i \in 1..Len(stack) : NoBlacklisted(stack[i].path)
    /\ \A i \in 1..Len(opened) : NoBlacklisted(opened[i].path.dir)
    /\ \A i \in 1..Len(out) :
         out[i].kind \in {"report", "error"} => NoBlacklisted(out[i].path.dir)
    /\ total_dirs = SumSeq(UnprunedPerVisit)
    /\ total_files = Len(Reports)
    /\ total_lines = SumSeq(ReportCounts)

\* C1's case: the walk ended after a listing showed a blacklisted directory
\* that could have been entered, next to one that was entered and read.
C1_Witness ==
    /\ pc = "done"
    /\ \E i \in 1..Len(visited) : \E j \in 1..Len(visited[i].dirs) :
         visited[i].dirs[j].name \in blacklist /\ visited[i].dirs[j].kind = "dir"
    /\ Len(visited) >= 2
    /\ total_files >= 1

\* The number of .cs files in each listing os.walk yielded.
CsFilesPerVisit ==
    [i \in 1..Len(visited) |->
        Cardinality({j \in 1..Len(visited[i].files) : EndsWith(visited[i].files[j], DotCs)})]

\* C2: a .cs file that fails to open or to be read (also after some of its
\* lines were read) prints one "Error reading" line for its path, leaves
\* total_lines and total_files as they were, and the loop goes on with the
\* remaining files and directories; the run never ends in an unhandled
\* exception, and when it ends every .cs file listed was opened and the
\* summary is printed.
C2_ReadErrorContained ==
    /\ [](pc # "crashed")
    /\ [](pc = "done" => SummaryPrinted /\ Len(opened) = SumSeq(CsFilesPerVisit))
    /\ [][(opened' # opened /\ ~opened'[Len(opened')].ok) =>
            /\ \E e \in {"PermissionError", "UnicodeDecodeError"} :
                 out' = Append(out, ErrorLine(Join(root, Head(files)), e))
            /\ total_lines' = total_lines
            /\ total_files' = total_files
            /\ files' = Tail(files)
            /\ stack' = stack
            /\ pc' = AfterFile(files')]_vars

\* C2's case: a file failed after lines of it had been read, a later file
\* was read to its end, and the run ended.
C2_Witness ==
    /\ pc = "done"
    /\ \E i, j \in 1..Len(opened) :
         /\ i < j
         /\ ~opened[i].ok /\ opened[i].partial
         /\ opened[j].ok
    /\ total_lines >= 1

\* C7 as stated: once a directory could not be listed, the summary lines are
\* never printed.
C7_ListingErrorIsFatal ==
    skipped # {} => /\ pc # "done"
                    /\ \A i \in 1..Len(out) : out[i].kind \notin {"total", "dirs"}

\* C7, amended: a directory that cannot be listed is left out of the walk
\* and nothing more: no triple is yielded for it, nothing beneath it is
\* opened, and the run does not stop there; it goes on to the summary.
C7_ListingErrorIgnored ==
    skipped # {} =>
        /\ \A i \in 1..Len(visited) : visited[i].root \notin skipped
        /\ \A i \in 1..Len(opened) : opened[i].path.dir \notin skipped
        /\ \/ pc = "done" /\ SummaryPrinted
           \/ pc \in {"walk", "files"} /\ ENABLED Next

\* C7's case: a subdirectory could not be listed, a subdirectory listed
\* after it was visited all the same, and the summary was printed.
C7_Witness ==
    /\ pc = "done" /\ SummaryPrinted
    /\ \E i \in 1..Len(visited) : \E j, k \in 1..Len(visited[i].dirs) :
         LET v == visited[i]
         IN  /\ j < k
             /\ Append(v.root, v.dirs[j].name) \in skipped
             /\ \E m \in 1..Len(visited) :
                  visited[m].root = Append(v.root, v.dirs[k].name)

\* C8: total_files is the number of report lines printed and total_lines the
\* sum of their counts, the Total line prints these two, and the report
\* lines are exactly the .cs files that were read to their end, in order.
C8_TotalsMatchReports ==
    /\ total_files = Len(Reports)
    /\ total_lines = SumSeq(ReportCounts)
    /\ pc = "done" =>
         /\ Len(out) >= 2
         /\ out[Len(out) - 1] = TotalLine(SumSeq(ReportCounts), Len(Reports))
    /\ LET read == SelectSeq(opened, LAMBDA o : o.ok)
       IN  /\ Len(read) = Len(Reports)
           /\ \A i \in 1..Len(read) :
                /\ Reports[i].path = read[i].path
                /\ EndsWith(read[i].path.file, DotCs)

\* C8's case: the run ended having read a file with lines, failed on
\* another, and passed over a file that is not a .cs file.
C8_Witness ==
    /\ pc = "done"
    /\ total_files >= 1 /\ total_lines >= 1
    /\ \E i \in 1..Len(opened) : ~opened[i].ok
    /\ \E i \in 1..Len(visited) : \E j \in 1..Len(visited[i].files) :
         ~EndsWith(visited[i].files[j], DotCs)

\* C9: total_dirs is the sum, over the directories os.walk yielded, of the
\* number of their immediate subdirectories whose names are not blacklisted
\* (so it does not move when a file fails), and "Directories scanned" prints it.
C9_DirsScannedIsSumOfUnpruned ==
    /\ total_dirs = SumSeq(UnprunedPerVisit)
    /\ pc = "done" => out[Len(out)] = DirsLine(SumSeq(UnprunedPerVisit))

\* C9's case: the run ended with directories counted, a blacklisted
\* subdirectory listed and a file that failed.
C9_Witness ==
    /\ pc = "done"
    /\ total_dirs >= 1
    /\ \E i \in 1..Len(visited) : \E j \in 1..Len(visited[i].dirs) :
         visited[i].dirs[j].name \in blacklist
    /\ \E i \in 1..Len(opened) : ~opened[i].ok

\* Every subdirectory that is not blacklisted is a directory the walk can
\* enter: none is a symbolic link, none (the start included) fails to list.
AllEntered ==
    /\ skipped = {}
    /\ \A i \in 1..Len(stack) : stack[i].kind = "dir"
    /\ \A i \in 1..Len(visited) : \A j \in Unpruned(visited[i].dirs) :
         visited[i].dirs[j].kind = "dir"

\* The places where path was listed as a subdirectory that is not blacklisted.
ListedAt(path) ==
    {<<i, j>> \in (1..Len(visited)) \X (1..MaxEntries) :
        /\ j \in Unpruned(visited[i].dirs)
        /\ Append(visited[i].root, visited[i].dirs[j].name) = path}

\* C10: when every subdirectory that is not blacklisted is entered, each
\* visited directory but the first was counted exactly once, as a child of
\* its parent, and at the end total_dirs is the number of visited
\* directories minus one.
C10_DirsScannedIsVisitedMinusOne ==
    AllEntered =>
        /\ \A i \in 2..Len(visited) : Cardinality(ListedAt(visited[i].root)) = 1
        /\ Len(visited) >= 1 => ListedAt(visited[1].root) = {}
        /\ pc = "done" => total_dirs = Len(visited) - 1

\* C10's case: such a run ended after visiting three directories, with a
\* blacklisted subdirectory among those listed.
C10_Witness ==
    /\ pc = "done" /\ AllEntered
    /\ Len(visited) >= 3
    /\ \E i \in 1..Len(visited) : \E j \in 1..Len(visited[i].dirs) :
         visited[i].dirs[j].name \in blacklist

----------------------------------------------------------------------------
(* The claim about the line count, under SpecRead.                         *)

\* The line terminators of a file: each "\n" (with the "\r" before it, if
\* any) and each "\r" not followed by "\n".
Terminators(raw) ==
    Cardinality({i \in 1..Len(raw) :
        \/ raw[i] = NL
        \/ raw[i] = CR /\ ~(i < Len(raw) /\ raw[i + 1] = NL)})

EndsUnterminated(raw) == raw # <<>> /\ raw[Len(raw)] \notin {NL, CR}

\* C6 as stated: the count printed is the number of line terminators in the
\* file, also when the last line has no terminator.
C6_CountIsTerminators ==
    rpc = "printed" => printed = <<Terminators(content)>>

\* C6, amended: the count printed is the number of lines the file is read
\* as: its terminators, and one more when it ends in a line without one.
C6_CountIsLines ==
    rpc = "printed" =>
        printed = <<Terminators(content) + (IF EndsUnterminated(content) THEN 1 ELSE 0)>>

\* C6's case: a count was printed for a file with a terminated line followed
\* by a last line without terminator.
C6_Witness ==
    /\ rpc = "printed"
    /\ Terminators(content) >= 1
    /\ EndsUnterminated(content)

----------------------------------------------------------------------------
(* The claims about the deduplicator, under SpecDedup.                     *)

\* The line holds the phrase and its quote, then one or more characters that
\* are not quotes, then a quote.
HasPattern(line) ==
    \E i, j \in 1..Len(line) :
        /\ line[i] = Text /\ i + 1 <= Len(line) /\ line[i + 1] = Quote
        /\ j >= i + 3 /\ line[j] = Quote
        /\ \A k \in (i + 2)..(j - 1) : line[k] # Quote

\* The input's lines as line 14 holds them, without their terminators.
InputLines == lines

Ran == dpc = "done" /\ inputOpened

\* The least element of a non-empty set of numbers.
Least(S) == CHOOSE i \in S : \A k \in S : i <= k

RowsOf(ts) ==
    LET first == SelectSeq([i \in 1..Len(ts) |-> <<i, ts[i]>>],
                           LAMBDA p : \A k \in 1..(p[1] - 1) : ts[k] # p[2])
    IN  [r \in 1..Len(first) |->
            Row(first[r][2], Cardinality({i \in 1..Len(ts) : ts[i] = first[r][2]}))]

\* C4: a line without the pattern (a quote never closed, an empty name, no
\* phrase at all) yields no token, and the output is the one the input gives
\* with every such line removed: these lines change neither the rows, nor
\* their order, nor their counts.
C4_LinesWithoutPatternLeaveNoTrace ==
    Ran =>
        LET ls == InputLines
            kept == SelectSeq(ls, HasPattern)
        IN  /\ \A i \in 1..Len(ls) : ~HasPattern(ls[i]) => extract_type(ls[i]) = None
            /\ Len(types) = Len(kept)
            /\ outFile.rows = RowsOf([i \in 1..Len(kept) |-> extract_type(kept[i]).val])

\* C4's case: a line whose quote is never closed stands before two lines the
\* token is extracted from.
C4_Witness ==
    /\ Ran
    /\ Len(InputLines) = 3
    /\ InputLines[1] = <<Text, Quote, "A">>
    /\ HasPattern(InputLines[2]) /\ HasPattern(InputLines[3])
    /\ Len(outFile.rows) = 1

\* C5: with an argument count other than two the program prints the usage
\* line and ends; it never opens the input nor touches the output file.
\* The input is opened and the output written only with two arguments.
C5_UsageWithoutFileAccess ==
    /\ Len(argv) # 3 =>
         /\ dpc \in {"main", "done"}
         /\ ~inputOpened
         /\ outFile = outFile0
         /\ dpc = "done" => stdout = <<Usage>>
    /\ (inputOpened \/ outFile # outFile0) => Len(argv) = 3
    /\ Len(argv) = 3 => stdout = <<>>

\* C5's case: the program ended after being given three arguments, with an
\* earlier output file in place.
C5_Witness ==
    /\ dpc = "done"
    /\ Len(argv) = 4
    /\ outFile0 = Stale

====
